---- MODULE Spec2Model ----
(***************************************************************************)
(* The manager of the toy storage cluster (manager.py, common.py): the     *)
(* wire codec, the Registry guarded by one lock, and one handle_conn       *)
(* thread per accepted connection.                                         *)
(*                                                                         *)
(* A Python str is modelled as the sequence of its code points, a bytes    *)
(* object as a sequence of numbers 0..255.                                 *)
(***************************************************************************)
EXTENDS Integers, Sequences, FiniteSets, TLC

(* ------------------------------ bounds --------------------------------- *)
\* number of connections the acceptor hands to handle_conn threads
NConn == 2
\* frames one connection's peer sends before it goes quiet
MaxReqs == 3
\* largest n a CONFIGURE_DSS_REQ of the peers asks for
MaxN == 3
\* largest id a DEREGISTER_*_REQ of the peers names
MaxDeregId == 3
\* SpecLive: frames one connection's peer sends before it closes
MaxLiveReqs == 1
\* SpecLive: ids (user, disk, DSS) handed out before the peers stop asking for more
MaxLiveIds == 2

(* --------------------------- common.py --------------------------------- *)
PROTO_VERSION == 1

REGISTER_USER_REQ == 16
REGISTER_USER_RESP == 17
REGISTER_DISK_REQ == 32
REGISTER_DISK_RESP == 33
CONFIGURE_DSS_REQ == 48
CONFIGURE_DSS_RESP == 49
DEREGISTER_USER_REQ == 64
DEREGISTER_USER_RESP == 65
DEREGISTER_DISK_REQ == 80
DEREGISTER_DISK_RESP == 81
ERROR_RESP == 127

OK == 0
INVALID_ARGUMENT == 1
ALREADY_REGISTERED == 2
NOT_REGISTERED == 3
INSUFFICIENT_RESOURCES == 4
INTERNAL_ERROR == 5


\* a slip: "<" for ">" in the format strings of the packers, least significant
\* byte first
RECURSIVE pack_be_little_endian(_, _)
pack_be_little_endian(x, width) ==
    IF width = 0 THEN << >>
    ELSE <<x % 256>> \o pack_be_little_endian(x \div 256, width - 1)

\* struct.pack(">B" / ">H" / ">I" / ">Q", x): big-endian, most significant byte first
RECURSIVE pack_be(_, _)
pack_be(x, width) ==
    IF width = 0 THEN << >>
    ELSE Append(pack_be(x \div 256, width - 1), x % 256)

pack_u8(x) == pack_be(x, 1)
pack_u16(x) == pack_be(x, 2)
pack_u32(x) == pack_be(x, 4)
pack_u64(x) == pack_be(x, 8)

\* s.encode("utf-8") for code points below 0x800 (one- and two-byte forms)
RECURSIVE utf8_encode(_)
utf8_encode(s) ==
    IF s = << >> THEN << >>
    ELSE LET cp == Head(s)
         IN  (IF cp < 128 THEN <<cp>>
              ELSE <<192 + (cp \div 64), 128 + (cp % 64)>>) \o utf8_encode(Tail(s))

\* b.decode("utf-8"): [ok, v]; ok = FALSE is UnicodeDecodeError (a ValueError).
\* Lead bytes of three- and four-byte forms are outside the modelled alphabet.
RECURSIVE utf8_decode(_)
utf8_decode(b) ==
    IF b = << >> THEN [ok |-> TRUE, v |-> << >>]
    ELSE IF b[1] < 128
         THEN LET r == utf8_decode(Tail(b))
              IN  [ok |-> r.ok, v |-> IF r.ok THEN <<b[1]>> \o r.v ELSE << >>]
    ELSE IF b[1] >= 194 /\ b[1] < 224 /\ Len(b) >= 2 /\ b[2] >= 128 /\ b[2] < 192
         THEN LET r == utf8_decode(Tail(Tail(b)))
              IN  [ok |-> r.ok,
                   v |-> IF r.ok THEN <<(b[1] - 192) * 64 + (b[2] - 128)>> \o r.v ELSE << >>]
    ELSE [ok |-> FALSE, v |-> << >>]

\* [ok, v]: ok = FALSE is the ValueError "string too long"
pack_str(s) ==
    LET b == utf8_encode(s)
    IN  IF Len(b) > 65535 THEN [ok |-> FALSE, v |-> << >>]
        ELSE [ok |-> TRUE, v |-> pack_u16(Len(b)) \o b]

RECURSIVE pack_u32_each(_)
pack_u32_each(values) ==
    IF values = << >> THEN << >>
    ELSE pack_u32(Head(values)) \o pack_u32_each(Tail(values))

\* [ok, v]: ok = FALSE is the ValueError "list too long"
pack_u32_list(values) ==
    IF Len(values) > 65535 THEN [ok |-> FALSE, v |-> << >>]
    ELSE [ok |-> TRUE, v |-> pack_u16(Len(values)) \o pack_u32_each(values)]

\* class Cursor: the buffer and the read offset
Cursor(data) == [data |-> data, off |-> 0]


\* Cursor.need: TRUE when n more bytes remain, FALSE is ValueError("truncated payload")
need(c, n) == c.off + n <= Len(c.data)

\* struct.unpack_from big-endian of width bytes at offset off.  The integers of
\* the checker end at 2^31 - 1: a value that large or larger is read as 2^31 - 1
\* (the values the peers encode are smaller and are read exactly).
RECURSIVE unpack_be(_, _, _)
unpack_be(data, off, width) ==
    IF width = 0 THEN 0
    ELSE LET hi == unpack_be(data, off, width - 1)
         IN  IF hi >= 8388608 THEN 2147483647
             ELSE hi * 256 + data[off + width]

\* a failed need: ValueError("truncated payload"), the cursor left where it was
Raise(c) == [ok |-> FALSE, v |-> 0, c |-> c, err |-> "truncated payload"]

\* a slip: the bounds check dropped from the integer reads, which then take the
\* bytes that are there (as int.from_bytes of a slice would)
cur_uint_unchecked(c, width) ==
    LET last == IF c.off + width <= Len(c.data) THEN c.off + width ELSE Len(c.data)
        part == SubSeq(c.data, c.off + 1, last)
    IN  [ok |-> TRUE, v |-> unpack_be(part, 0, Len(part)),
         c |-> [c EXCEPT !.off = @ + width], err |-> ""]

cur_uint(c, width) ==
    IF need(c, width)
    THEN [ok |-> TRUE, v |-> unpack_be(c.data, c.off, width),
          c |-> [c EXCEPT !.off = @ + width], err |-> ""]
    ELSE Raise(c)

cur_u8(c) == cur_uint(c, 1)
cur_u16(c) == cur_uint(c, 2)
cur_u32(c) == cur_uint(c, 4)
cur_u64(c) == cur_uint(c, 8)

\* Cursor.str: the u16 read advances the cursor even when the body is short;
\* a body that is not UTF-8 raises UnicodeDecodeError (a ValueError) instead
cur_str(c) ==
    LET n == cur_u16(c)
    IN  IF ~n.ok THEN Raise(c)
        ELSE IF ~need(n.c, n.v) THEN Raise(n.c)
        ELSE LET s == utf8_decode(SubSeq(n.c.data, n.c.off + 1, n.c.off + n.v))
             IN  IF s.ok
                 THEN [ok |-> TRUE, v |-> s.v, c |-> [n.c EXCEPT !.off = @ + n.v],
                       err |-> ""]
                 ELSE [ok |-> FALSE, v |-> 0, c |-> n.c, err |-> "UnicodeDecodeError"]

RECURSIVE cur_u32_items(_, _)
cur_u32_items(c, k) ==
    IF k = 0 THEN [ok |-> TRUE, v |-> << >>, c |-> c, err |-> ""]
    ELSE LET x == cur_u32(c)
         IN  IF ~x.ok THEN x
             ELSE LET r == cur_u32_items(x.c, k - 1)
                  IN  IF r.ok THEN [r EXCEPT !.v = <<x.v>> \o @]
                      ELSE r

cur_u32_list(c) ==
    LET n == cur_u16(c)
    IN  IF ~n.ok THEN Raise(c) ELSE cur_u32_items(n.c, n.v)


HEADER_size == 10

\* HEADER.pack(version, msg_type, txn_id, payload_len), struct ">BBII"
HEADER_pack(version, msg_type, txn_id, payload_len) ==
    pack_u8(version) \o pack_u8(msg_type) \o pack_u32(txn_id) \o pack_u32(payload_len)

\* send_msg: the bytes handed to sock.sendall
send_msg(msg_type, txn_id, payload) ==
    HEADER_pack(PROTO_VERSION, msg_type, txn_id, Len(payload)) \o payload

\* a slip: the version byte unpacked and never compared
recv_msg_any_version(wire) ==
    LET none == [exc |-> "", msg_type |-> 0, txn_id |-> 0, payload |-> << >>]
    IN  IF Len(wire) < HEADER_size THEN [none EXCEPT !.exc = "ConnectionError"]
        ELSE LET msg_type == unpack_be(wire, 1, 1)
                 txn_id == unpack_be(wire, 2, 4)
                 payload_len == unpack_be(wire, 6, 4)
             IN  IF Len(wire) < HEADER_size + payload_len
                 THEN [none EXCEPT !.exc = "ConnectionError"]
                 ELSE [exc |-> "", msg_type |-> msg_type, txn_id |-> txn_id,
                       payload |-> SubSeq(wire, HEADER_size + 1, HEADER_size + payload_len)]

\* recv_msg on the bytes the peer wrote before going quiet or closing:
\* exc = "ConnectionError" when the stream ends inside the header or the payload,
\* exc = "ValueError" on a version other than PROTO_VERSION (the payload is not read)
recv_msg(wire) ==
    LET none == [exc |-> "", msg_type |-> 0, txn_id |-> 0, payload |-> << >>]
    IN  IF Len(wire) < HEADER_size THEN [none EXCEPT !.exc = "ConnectionError"]
        ELSE LET version == unpack_be(wire, 0, 1)
                 msg_type == unpack_be(wire, 1, 1)
                 txn_id == unpack_be(wire, 2, 4)
                 payload_len == unpack_be(wire, 6, 4)
             IN  IF version # PROTO_VERSION
                 THEN [none EXCEPT !.exc = "ValueError", !.msg_type = msg_type,
                                   !.txn_id = txn_id]
                 ELSE IF Len(wire) < HEADER_size + payload_len
                 THEN [none EXCEPT !.exc = "ConnectionError"]
                 ELSE [exc |-> "", msg_type |-> msg_type, txn_id |-> txn_id,
                       payload |-> SubSeq(wire, HEADER_size + 1, HEADER_size + payload_len)]

(* --------------------------- manager.py: codec ------------------------- *)
enc_register_user_resp(status, user_id) == pack_u8(status) \o pack_u32(user_id)

enc_register_disk_resp(status, disk_id) == pack_u8(status) \o pack_u32(disk_id)

\* [ok, v]: pack_u32_list may raise
enc_configure_resp(status, dss_id, disk_ids) ==
    LET l == pack_u32_list(disk_ids)
    IN  [ok |-> l.ok, v |-> pack_u8(status) \o pack_u32(dss_id) \o l.v]

enc_simple_status(status) == pack_u8(status)

\* [ok, v]: pack_str may raise
enc_error(status, msg) ==
    LET m == pack_str(msg)
    IN  [ok |-> m.ok, v |-> pack_u8(status) \o m.v]

\* The decoders return [ok, ...fields, off, err]: ok = FALSE is the ValueError
\* of the cursor, err its kind, off the cursor's offset when the decoder returns
\* or raises.
dec_register_user_req(pb) ==
    LET bad(x) == [ok |-> FALSE, name |-> << >>, listen_port |-> 0,
                   off |-> x.c.off, err |-> x.err]
        name == cur_str(Cursor(pb))
    IN  IF ~name.ok THEN bad(name)
        ELSE LET listen_port == cur_u16(name.c)
             IN  IF ~listen_port.ok THEN bad(listen_port)
                 ELSE [ok |-> TRUE, name |-> name.v, listen_port |-> listen_port.v,
                       off |-> listen_port.c.off, err |-> ""]

dec_register_disk_req(pb) ==
    LET bad(x) == [ok |-> FALSE, name |-> << >>, listen_port |-> 0, capacity |-> 0,
                   zone |-> << >>, off |-> x.c.off, err |-> x.err]
        name == cur_str(Cursor(pb))
    IN  IF ~name.ok THEN bad(name)
        ELSE LET listen_port == cur_u16(name.c)
             IN  IF ~listen_port.ok THEN bad(listen_port)
                 ELSE LET capacity == cur_u64(listen_port.c)
                      IN  IF ~capacity.ok THEN bad(capacity)
                          ELSE LET zone == cur_str(capacity.c)
                               IN  IF ~zone.ok THEN bad(zone)
                                   ELSE [ok |-> TRUE, name |-> name.v,
                                         listen_port |-> listen_port.v,
                                         capacity |-> capacity.v, zone |-> zone.v,
                                         off |-> zone.c.off, err |-> ""]

dec_configure_req(pb) ==
    LET bad(x) == [ok |-> FALSE, n |-> 0, policy |-> << >>, constraints_json |-> << >>,
                   off |-> x.c.off, err |-> x.err]
        n == cur_u16(Cursor(pb))
    IN  IF ~n.ok THEN bad(n)
        ELSE LET policy == cur_str(n.c)
             IN  IF ~policy.ok THEN bad(policy)
                 ELSE LET constraints_json == cur_str(policy.c)
                      IN  IF ~constraints_json.ok THEN bad(constraints_json)
                          ELSE [ok |-> TRUE, n |-> n.v, policy |-> policy.v,
                                constraints_json |-> constraints_json.v,
                                off |-> constraints_json.c.off, err |-> ""]

dec_deregister_user_req(pb) ==
    LET r == cur_u32(Cursor(pb)) IN [ok |-> r.ok, id |-> r.v, off |-> r.c.off, err |-> r.err]

dec_deregister_disk_req(pb) ==
    LET r == cur_u32(Cursor(pb)) IN [ok |-> r.ok, id |-> r.v, off |-> r.c.off, err |-> r.err]

(* ------------------- user.py, disk.py: the peers' codec ---------------- *)
\* pack_str cannot raise on the short strings of the peers modelled here
enc_register_user_req(name, listen_port) == pack_str(name).v \o pack_u16(listen_port)

enc_register_disk_req(name, listen_port, capacity, zone) ==
    pack_str(name).v \o pack_u16(listen_port) \o pack_u64(capacity) \o pack_str(zone).v

enc_configure_req(n, policy, constraints_json) ==
    pack_u16(n) \o pack_str(policy).v \o pack_str(constraints_json).v

enc_deregister_user_req(user_id) == pack_u32(user_id)

enc_deregister_disk_req(disk_id) == pack_u32(disk_id)

dec_register_user_resp(pb) ==
    LET status == cur_u8(Cursor(pb))
    IN  IF ~status.ok
        THEN [ok |-> FALSE, status |-> 0, id |-> 0, off |-> status.c.off, err |-> status.err]
        ELSE LET user_id == cur_u32(status.c)
             IN  [ok |-> user_id.ok, status |-> status.v, id |-> user_id.v,
                  off |-> user_id.c.off, err |-> user_id.err]

dec_register_disk_resp(pb) ==
    LET status == cur_u8(Cursor(pb))
    IN  IF ~status.ok
        THEN [ok |-> FALSE, status |-> 0, id |-> 0, off |-> status.c.off, err |-> status.err]
        ELSE LET disk_id == cur_u32(status.c)
             IN  [ok |-> disk_id.ok, status |-> status.v, id |-> disk_id.v,
                  off |-> disk_id.c.off, err |-> disk_id.err]

dec_configure_resp(pb) ==
    LET bad(x) == [ok |-> FALSE, status |-> 0, dss_id |-> 0, disk_ids |-> << >>,
                   off |-> x.c.off, err |-> x.err]
        status == cur_u8(Cursor(pb))
    IN  IF ~status.ok THEN bad(status)
        ELSE LET dss_id == cur_u32(status.c)
             IN  IF ~dss_id.ok THEN bad(dss_id)
                 ELSE LET disk_ids == cur_u32_list(dss_id.c)
                      IN  IF ~disk_ids.ok THEN bad(disk_ids)
                          ELSE [ok |-> TRUE, status |-> status.v, dss_id |-> dss_id.v,
                                disk_ids |-> disk_ids.v, off |-> disk_ids.c.off,
                                err |-> ""]

\* c = Cursor(pb); st = c.u8()
dec_status(pb) ==
    LET st == cur_u8(Cursor(pb))
    IN  [ok |-> st.ok, status |-> st.v, off |-> st.c.off, err |-> st.err]

\* c = Cursor(pb); status = c.u8(); msg = c.str()
dec_error(pb) ==
    LET status == cur_u8(Cursor(pb))
    IN  IF ~status.ok
        THEN [ok |-> FALSE, status |-> 0, msg |-> << >>, off |-> status.c.off,
              err |-> status.err]
        ELSE LET msg == cur_str(status.c)
             IN  [ok |-> msg.ok, status |-> status.v,
                  msg |-> IF msg.ok THEN msg.v ELSE << >>,
                  off |-> msg.c.off, err |-> msg.err]


(* --------------------------- manager.py: Registry ---------------------- *)
\* a Python dict is the sequence of its items [k, v] in insertion order
dict_keys(d) == [i \in 1..Len(d) |-> d[i].k]

dict_values(d) == [i \in 1..Len(d) |-> d[i].v]

\* k in d
dict_has(d, k) == \E i \in 1..Len(d) : d[i].k = k

\* d[k] = v: a present key keeps its position, a new key goes last
dict_set(d, k, v) ==
    IF dict_has(d, k)
    THEN [i \in 1..Len(d) |-> IF d[i].k = k THEN [k |-> k, v |-> v] ELSE d[i]]
    ELSE Append(d, [k |-> k, v |-> v])

\* d.pop(k, None): the other items keep their order
dict_pop(d, k) == SelectSeq(d, LAMBDA e : e.k # k)

\* Registry.__init__ (the lock is the variable lock)
Registry_init ==
    [next_user_id |-> 1, next_disk_id |-> 1, next_dss_id |-> 1,
     users |-> << >>, disks |-> << >>]

\* The bodies of the Registry methods, run inside "with self.lock": [reg, ret].
\* register_user and register_disk take two steps of the thread: the read
\* "uid = self.next_user_id" (read_next_user_id), then the rest of the body with
\* that uid (register_user): "self.next_user_id += 1", the store, the return.
read_next_user_id(r) == r.next_user_id

register_user(r, uid, name, addr, port) ==
    LET rec == [user_id |-> uid, name |-> name, addr |-> addr, port |-> port,
                status |-> "READY"]
    IN  [reg |-> [r EXCEPT !.next_user_id = @ + 1,
                           !.users = dict_set(@, uid, rec)],
         ret |-> uid]


\* a slip: the counter starts over once the collection is empty again
deregister_user_reset(r, user_id) ==
    LET left == dict_pop(r.users, user_id)
    IN  [reg |-> [r EXCEPT !.users = left,
                           !.next_user_id = IF left = << >> THEN 1 ELSE @],
         ret |-> dict_has(r.users, user_id)]

deregister_user(r, user_id) ==
    [reg |-> [r EXCEPT !.users = dict_pop(@, user_id)],
     ret |-> dict_has(r.users, user_id)]


\* a slip: the next id taken from the size of the collection
read_next_disk_id_by_count(r) == Len(r.disks) + 1

read_next_disk_id(r) == r.next_disk_id

register_disk(r, did, name, addr, port, capacity_bytes, zone) ==
    LET rec == [disk_id |-> did, name |-> name, addr |-> addr, port |-> port,
                capacity |-> capacity_bytes, zone |-> zone, status |-> "READY"]
    IN  [reg |-> [r EXCEPT !.next_disk_id = @ + 1,
                           !.disks = dict_set(@, did, rec)],
         ret |-> did]


\* a slip: the disk id popped from the users
deregister_disk_from_users(r, disk_id) ==
    [reg |-> [r EXCEPT !.users = dict_pop(@, disk_id)],
     ret |-> dict_has(r.users, disk_id)]

deregister_disk(r, disk_id) ==
    [reg |-> [r EXCEPT !.disks = dict_pop(@, disk_id)],
     ret |-> dict_has(r.disks, disk_id)]


\* a slip: the newest n disks instead of the first n (ready[-n:])
allocate_disks_newest(r, n) ==
    LET ready == [i \in 1..Len(r.disks) |-> dict_values(r.disks)[i].disk_id]
    IN  [reg |-> r,
         ret |-> IF Len(ready) < n THEN [none |-> TRUE, ids |-> << >>]
                 ELSE [none |-> FALSE, ids |-> SubSeq(ready, Len(ready) - n + 1, Len(ready))]]

\* a slip: the length check left out, ready[:n] returned as it is
allocate_disks_unchecked(r, n) ==
    LET ready == [i \in 1..Len(r.disks) |-> dict_values(r.disks)[i].disk_id]
    IN  [reg |-> r,
         ret |-> [none |-> FALSE,
                  ids |-> SubSeq(ready, 1, IF Len(ready) < n THEN Len(ready) ELSE n)]]

\* a change of design: the disks handed out are marked as in use
allocate_disks_marking(r, n) ==
    LET ready == [i \in 1..Len(r.disks) |-> dict_values(r.disks)[i].disk_id]
    IN  IF Len(ready) < n THEN [reg |-> r, ret |-> [none |-> TRUE, ids |-> << >>]]
        ELSE [reg |-> [r EXCEPT !.disks =
                          [i \in 1..Len(r.disks) |->
                              IF i <= n THEN [r.disks[i] EXCEPT !.v.status = "ALLOCATED"]
                              ELSE r.disks[i]]],
              ret |-> [none |-> FALSE, ids |-> SubSeq(ready, 1, n)]]


\* a slip: the ids taken from the counter (every disk ever registered) instead
\* of from the disks present
allocate_disks_ever_registered(r, n) ==
    LET ready == [i \in 1..(r.next_disk_id - 1) |-> i]
    IN  [reg |-> r,
         ret |-> IF Len(ready) < n THEN [none |-> TRUE, ids |-> << >>]
                 ELSE [none |-> FALSE, ids |-> SubSeq(ready, 1, n)]]

\* ret = [none, ids]: none = TRUE is the None returned when too few disks
allocate_disks(r, n) ==
    LET ready == [i \in 1..Len(r.disks) |-> dict_values(r.disks)[i].disk_id]
    IN  [reg |-> r,
         ret |-> IF Len(ready) < n THEN [none |-> TRUE, ids |-> << >>]
                 ELSE [none |-> FALSE, ids |-> SubSeq(ready, 1, n)]]

\* handle_conn, with reg.lock: "dss_id = reg.next_dss_id" is one step of the
\* thread, "reg.next_dss_id += 1" the next
read_next_dss_id(r) == r.next_dss_id


\* a slip: the increment of the DSS counter left out
mint_dss_id_no_advance(r, dss_id) == [reg |-> r, ret |-> dss_id]

mint_dss_id(r, dss_id) ==
    [reg |-> [r EXCEPT !.next_dss_id = @ + 1], ret |-> dss_id]


\* a slip: a lock that never excludes
lock_free_always(l) == TRUE

\* threading.Lock: acquire succeeds only when no thread holds it
lock_free(l) == l = 0


(* --------------------------- manager.py: handle_conn ------------------- *)
VARIABLES
    reg,        \* the Registry: counters, users, disks
    lock,       \* reg.lock: 0 when free, else the connection whose thread holds it
    pc,         \* where each connection's handle_conn thread stands
    cur,        \* the locals of the thread's current loop iteration
    nrecv,      \* frames recv_msg has returned on the connection
    nsent,      \* frames send_msg has written to the connection
    exit,       \* the exception that ended the thread, "" while it runs
    returned,   \* the ids returned so far: by register_user, register_disk, the DSS step
    gone        \* the ids deregister_user / deregister_disk removed so far

vars == <<reg, lock, pc, cur, nrecv, nsent, exit, returned, gone>>

Conns == 1..NConn

\* addr[0] of the accepted socket: one host per connection
addr_of(c) == c

\* resp is the frame the thread is about to hand to sock.sendall
NoLocals ==
    [op |-> "", msg_type |-> 0, txn_id |-> 0, name |-> << >>, listen_port |-> 0,
     cap |-> 0, zone |-> << >>, id |-> 0, n |-> 0, disks |-> << >>, resp |-> << >>]

Init ==
    /\ reg = Registry_init
    /\ lock = 0
    /\ pc = [c \in Conns |-> "idle"]
    /\ cur = [c \in Conns |-> NoLocals]
    /\ nrecv = [c \in Conns |-> 0]
    /\ nsent = [c \in Conns |-> 0]
    /\ exit = [c \in Conns |-> ""]
    /\ returned = [user |-> << >>, disk |-> << >>, dss |-> << >>]
    /\ gone = [user |-> {}, disk |-> {}]

RECURSIVE str_int(_)
\* str(n) of a non-negative int, as code points
str_int(n) == IF n < 10 THEN <<48 + n>> ELSE str_int(n \div 10) \o <<48 + (n % 10)>>

\* str(e) of the exceptions the handler turns into an ERROR_RESP
MsgMissingNamePort ==
    <<109, 105, 115, 115, 105, 110, 103, 32, 110, 97, 109, 101, 47, 112, 111, 114, 116>>
MsgBadDiskArgs == <<98, 97, 100, 32, 100, 105, 115, 107, 32, 97, 114, 103, 115>>
MsgTruncatedPayload ==
    <<116, 114, 117, 110, 99, 97, 116, 101, 100, 32, 112, 97, 121, 108, 111, 97, 100>>
MsgUnknownMsgType(t) ==
    <<117, 110, 107, 110, 111, 119, 110, 32, 109, 115, 103, 95, 116, 121, 112, 101, 32>>
        \o str_int(t)

RequestTypes ==
    {REGISTER_USER_REQ, DEREGISTER_USER_REQ, REGISTER_DISK_REQ, DEREGISTER_DISK_REQ,
     CONFIGURE_DSS_REQ}


\* a slip: the response built with no transaction id of the request
Received_no_txn(m) == [NoLocals EXCEPT !.msg_type = m.msg_type]

\* What one loop iteration does with the frame m that recv_msg returned, up to
\* the point where the thread next touches the lock or the socket:
\* [pc, loc, exc], pc = "send" (loc.resp is ready), "acquire" (loc.op is the
\* Registry step to enter) or "closed" (exc left the loop).
Received(m) == [NoLocals EXCEPT !.msg_type = m.msg_type, !.txn_id = m.txn_id]

GoSend(loc, frame) == [pc |-> "send", loc |-> [loc EXCEPT !.resp = frame], exc |-> ""]

GoLock(loc, op) == [pc |-> "acquire", loc |-> [loc EXCEPT !.op = op], exc |-> ""]

\* an exception no clause of the loop body takes: finally: conn.close()
Die(loc, exc) == [pc |-> "closed", loc |-> loc, exc |-> exc]

\* except Exception as e: send_msg(ERROR_RESP, enc_error(INVALID_ARGUMENT, str(e)));
\* an enc_error that raises there leaves the loop as a ValueError
GoSendError(loc, msg) ==
    LET e == enc_error(INVALID_ARGUMENT, msg)
    IN  IF e.ok THEN GoSend(loc, send_msg(ERROR_RESP, loc.txn_id, e.v))
        ELSE Die(loc, "ValueError")

\* str(e) of a failed decode is "truncated payload": the peers' strings are
\* ASCII, so Cursor.str never fails in .decode("utf-8") here
on_register_user_req(m) ==
    LET d == dec_register_user_req(m.payload)
        loc == Received(m)
    IN  IF ~d.ok THEN GoSendError(loc, MsgTruncatedPayload)
        ELSE IF d.name = << >> \/ d.listen_port <= 0
        THEN GoSendError(loc, MsgMissingNamePort)
        ELSE GoLock([loc EXCEPT !.name = d.name, !.listen_port = d.listen_port],
                    "register_user")

on_deregister_user_req(m) ==
    LET d == dec_deregister_user_req(m.payload)
        loc == Received(m)
    IN  IF ~d.ok THEN Die(loc, "ValueError")
        ELSE GoLock([loc EXCEPT !.id = d.id], "deregister_user")


\* a slip: the capacity not validated
on_register_disk_req_any_capacity(m) ==
    LET d == dec_register_disk_req(m.payload)
        loc == Received(m)
    IN  IF ~d.ok THEN GoSendError(loc, MsgTruncatedPayload)
        ELSE IF d.name = << >> \/ d.listen_port <= 0
        THEN GoSendError(loc, MsgBadDiskArgs)
        ELSE GoLock([loc EXCEPT !.name = d.name, !.listen_port = d.listen_port,
                                !.cap = d.capacity, !.zone = d.zone],
                    "register_disk")

on_register_disk_req(m) ==
    LET d == dec_register_disk_req(m.payload)
        loc == Received(m)
    IN  IF ~d.ok THEN GoSendError(loc, MsgTruncatedPayload)
        ELSE IF d.name = << >> \/ d.listen_port <= 0 \/ d.capacity <= 0
        THEN GoSendError(loc, MsgBadDiskArgs)
        ELSE GoLock([loc EXCEPT !.name = d.name, !.listen_port = d.listen_port,
                                !.cap = d.capacity, !.zone = d.zone],
                    "register_disk")

on_deregister_disk_req(m) ==
    LET d == dec_deregister_disk_req(m.payload)
        loc == Received(m)
    IN  IF ~d.ok THEN Die(loc, "ValueError")
        ELSE GoLock([loc EXCEPT !.id = d.id], "deregister_disk")


\* a slip: the INVALID_ARGUMENT response for n <= 0 left out before "continue"
on_configure_dss_req_silent(m) ==
    LET d == dec_configure_req(m.payload)
        loc == Received(m)
    IN  IF ~d.ok THEN Die(loc, "ValueError")
        ELSE IF d.n <= 0
        THEN [pc |-> "recv", loc |-> NoLocals, exc |-> ""]
        ELSE GoLock([loc EXCEPT !.n = d.n], "allocate_disks")

\* n <= 0 is answered at once; enc_configure_resp of an empty list cannot raise
on_configure_dss_req(m) ==
    LET d == dec_configure_req(m.payload)
        loc == Received(m)
    IN  IF ~d.ok THEN Die(loc, "ValueError")
        ELSE IF d.n <= 0
        THEN GoSend(loc, send_msg(CONFIGURE_DSS_RESP, loc.txn_id,
                                  enc_configure_resp(INVALID_ARGUMENT, 0, << >>).v))
        ELSE GoLock([loc EXCEPT !.n = d.n], "allocate_disks")


\* a slip: an unknown type treated as a protocol error that ends the connection
on_unknown_closes(m) == Die(Received(m), "ValueError")

\* the else branch of the dispatch
on_unknown(m) == GoSendError(Received(m), MsgUnknownMsgType(m.msg_type))

\* the if / elif chain on msg_type
on_frame(m) ==
    IF m.msg_type = REGISTER_USER_REQ THEN on_register_user_req(m)
    ELSE IF m.msg_type = DEREGISTER_USER_REQ THEN on_deregister_user_req(m)
    ELSE IF m.msg_type = REGISTER_DISK_REQ THEN on_register_disk_req(m)
    ELSE IF m.msg_type = DEREGISTER_DISK_REQ THEN on_deregister_disk_req(m)
    ELSE IF m.msg_type = CONFIGURE_DSS_REQ THEN on_configure_dss_req(m)
    ELSE on_unknown(m)

(* --------------------------- the peers --------------------------------- *)
\* "a", the empty name; a port, port 0; a capacity, capacity 0; zone "z"; policy "R"
NameInputs == {<<97>>, << >>}
PortInputs == {9000, 0}
CapacityInputs == {1000, 0}
ZoneInputs == {<<122>>}
PolicyInputs == {<<82>>}

DropLast(b) == SubSeq(b, 1, Len(b) - 1)

\* the payloads and each of them with its last byte missing
WithTruncated(S) == S \cup {DropLast(b) : b \in {x \in S : Len(x) > 0}}

\* the payloads a peer puts in a frame of type t; among those of a
\* CONFIGURE_DSS_REQ one whose policy is the byte FF, which is not UTF-8
PeerPayloads(t) ==
    IF t = REGISTER_USER_REQ
    THEN WithTruncated({enc_register_user_req(nm, p) : nm \in NameInputs, p \in PortInputs})
    ELSE IF t = REGISTER_DISK_REQ
    THEN WithTruncated({enc_register_disk_req(nm, p, cp, z) :
                           nm \in NameInputs, p \in PortInputs,
                           cp \in CapacityInputs, z \in ZoneInputs})
    ELSE IF t = CONFIGURE_DSS_REQ
    THEN WithTruncated({enc_configure_req(n, pol, << >>) : n \in 0..MaxN, pol \in PolicyInputs})
         \cup {pack_u16(1) \o pack_u16(1) \o <<255>> \o pack_u16(0)}
    ELSE IF t = DEREGISTER_USER_REQ
    THEN WithTruncated({enc_deregister_user_req(i) : i \in 1..MaxDeregId})
    ELSE IF t = DEREGISTER_DISK_REQ
    THEN WithTruncated({enc_deregister_disk_req(i) : i \in 1..MaxDeregId})
    ELSE {<< >>}

\* the message types a peer sends: the five requests, two response types, type 0
PeerTypes == RequestTypes \cup {REGISTER_USER_RESP, ERROR_RESP, 0}

\* The peers number their frames as user.py and disk.py do (_txn = itertools.count(1)):
\* the x-th frame of a connection carries txn_id x.  PeerFrames[x][t] are the
\* frames of type t a peer may send as its x-th, as its send_msg writes them.
PeerFrames ==
    [x \in 1..MaxReqs |-> [t \in PeerTypes |-> {send_msg(t, x, pb) : pb \in PeerPayloads(t)}]]

\* what the handler does with each of them
PeerArrivals ==
    [x \in 1..MaxReqs |->
        [t \in PeerTypes |-> {on_frame(recv_msg(w)) : w \in PeerFrames[x][t]}]]

\* frames of another protocol version (0 and 2): a bare header, and a header
\* followed by a well-formed REGISTER_USER_REQ payload
BadVersionFrames ==
    [x \in 1..MaxReqs |->
        LET pb == enc_register_user_req(<<97>>, 9000)
        IN  {HEADER_pack(PROTO_VERSION - 1, REGISTER_USER_REQ, x, 0),
             HEADER_pack(PROTO_VERSION + 1, REGISTER_USER_REQ, x, 0),
             HEADER_pack(PROTO_VERSION + 1, REGISTER_USER_REQ, x, Len(pb)) \o pb}]

\* what recv_exact is left with when the peer closes: nothing, half a header,
\* a header and half a payload
ClosedStreams ==
    {<< >>, SubSeq(HEADER_pack(PROTO_VERSION, REGISTER_USER_REQ, 1, 0), 1, 4),
     HEADER_pack(PROTO_VERSION, DEREGISTER_USER_REQ, 1, 4) \o <<0, 0>>}

(* --------------------------- the threads' steps ------------------------ *)
\* the thread of c moves as o says
Goes(c, o) ==
    /\ pc' = [pc EXCEPT ![c] = o.pc]
    /\ cur' = [cur EXCEPT ![c] = o.loc]
    /\ exit' = [exit EXCEPT ![c] = o.exc]

\* serve: accept, then start the handle_conn thread
Accept(c) ==
    /\ pc[c] = "idle"
    /\ pc' = [pc EXCEPT ![c] = "recv"]
    /\ UNCHANGED <<reg, lock, cur, nrecv, nsent, exit, returned, gone>>

\* a change of design: the records of a peer are dropped when its connection ends
RecvClosed_forgets_peer(c) ==
    /\ pc[c] = "recv"
    /\ \E w \in ClosedStreams :
         /\ recv_msg(w).exc = "ConnectionError"
         /\ Goes(c, Die(cur[c], "ConnectionError"))
    /\ reg' = [reg EXCEPT !.users = SelectSeq(@, LAMBDA e : e.v.addr # addr_of(c)),
                          !.disks = SelectSeq(@, LAMBDA e : e.v.addr # addr_of(c))]
    /\ UNCHANGED <<lock, nrecv, nsent, returned, gone>>

\* recv_msg raises ConnectionError: except (ConnectionError, OSError), then close
RecvClosed(c) ==
    /\ pc[c] = "recv"
    /\ \E w \in ClosedStreams :
         /\ recv_msg(w).exc = "ConnectionError"
         /\ Goes(c, Die(cur[c], "ConnectionError"))
    /\ UNCHANGED <<reg, lock, nrecv, nsent, returned, gone>>

\* recv_msg raises ValueError on the version byte: no except clause takes it
RecvBadVersion(c) ==
    /\ pc[c] = "recv"
    /\ nrecv[c] < MaxReqs
    /\ \E w \in BadVersionFrames[nrecv[c] + 1] :
         LET m == recv_msg(w)
         IN  Goes(c, IF m.exc # "" THEN Die(cur[c], m.exc) ELSE on_frame(m))
    /\ UNCHANGED <<reg, lock, nrecv, nsent, returned, gone>>

\* recv_msg returns the peer's next frame, of type t, and the loop body runs on it
Recv(c, t) ==
    /\ pc[c] = "recv"
    /\ nrecv[c] < MaxReqs
    /\ \E o \in PeerArrivals[nrecv[c] + 1][t] : Goes(c, o)
    /\ nrecv' = [nrecv EXCEPT ![c] = @ + 1]
    /\ UNCHANGED <<reg, lock, nsent, returned, gone>>

RecvRegisterUser(c) == Recv(c, REGISTER_USER_REQ)
RecvDeregisterUser(c) == Recv(c, DEREGISTER_USER_REQ)
RecvRegisterDisk(c) == Recv(c, REGISTER_DISK_REQ)
RecvDeregisterDisk(c) == Recv(c, DEREGISTER_DISK_REQ)
RecvConfigure(c) == Recv(c, CONFIGURE_DSS_REQ)
RecvUnknown(c) == \E t \in PeerTypes \ RequestTypes : Recv(c, t)


\* a slip: the with statement left out, the body entered whoever holds the lock
Acquire_unguarded(c) ==
    /\ pc[c] = "acquire"
    /\ lock' = c
    /\ pc' = [pc EXCEPT ![c] = "locked"]
    /\ UNCHANGED <<reg, cur, nrecv, nsent, exit, returned, gone>>

\* with self.lock: entered
Acquire(c) ==
    /\ pc[c] = "acquire"
    /\ lock_free(lock)
    /\ lock' = c
    /\ pc' = [pc EXCEPT ![c] = "locked"]
    /\ UNCHANGED <<reg, cur, nrecv, nsent, exit, returned, gone>>

\* the thread of c is inside the critical section of op: at its first statement
\* (pc "locked"), or past the read of the id counter (pc "counted")
InCS(c, op) == pc[c] = "locked" /\ cur[c].op = op

Counted(c, op) == pc[c] = "counted" /\ cur[c].op = op

\* uid = self.next_user_id / did = self.next_disk_id / dss_id = reg.next_dss_id
ReadCounter(c) ==
    /\ pc[c] = "locked"
    /\ cur[c].op \in {"register_user", "register_disk", "mint_dss_id"}
    /\ LET v == IF cur[c].op = "register_user" THEN read_next_user_id(reg)
                ELSE IF cur[c].op = "register_disk" THEN read_next_disk_id(reg)
                ELSE read_next_dss_id(reg)
       IN  cur' = [cur EXCEPT ![c].id = v]
    /\ pc' = [pc EXCEPT ![c] = "counted"]
    /\ UNCHANGED <<reg, lock, nrecv, nsent, exit, returned, gone>>


\* a slip: lock.acquire() with no release on the way out of the section
Release_forgotten(c) == lock' = lock

\* the with block is left: the lock is released
Release(c) == lock' = IF lock = c THEN 0 ELSE lock


\* a change of design: a name already registered is refused with ALREADY_REGISTERED
RegisterUser_unique_names(c) ==
    /\ Counted(c, "register_user")
    /\ IF \E i \in 1..Len(reg.users) : reg.users[i].v.name = cur[c].name
       THEN /\ UNCHANGED <<reg, returned>>
            /\ Goes(c, GoSend(cur[c],
                              send_msg(REGISTER_USER_RESP, cur[c].txn_id,
                                       enc_register_user_resp(ALREADY_REGISTERED, 0))))
       ELSE LET r == register_user(reg, cur[c].id, cur[c].name, addr_of(c),
                                   cur[c].listen_port)
            IN  /\ reg' = r.reg
                /\ returned' = [returned EXCEPT !.user = Append(@, r.ret)]
                /\ Goes(c, GoSend(cur[c],
                                  send_msg(REGISTER_USER_RESP, cur[c].txn_id,
                                           enc_register_user_resp(OK, r.ret))))
    /\ Release(c)
    /\ UNCHANGED <<nrecv, nsent, gone>>

RegisterUser(c) ==
    /\ Counted(c, "register_user")
    /\ LET r == register_user(reg, cur[c].id, cur[c].name, addr_of(c), cur[c].listen_port)
       IN  /\ reg' = r.reg
           /\ returned' = [returned EXCEPT !.user = Append(@, r.ret)]
           /\ Goes(c, GoSend(cur[c],
                             send_msg(REGISTER_USER_RESP, cur[c].txn_id,
                                      enc_register_user_resp(OK, r.ret))))
    /\ Release(c)
    /\ UNCHANGED <<nrecv, nsent, gone>>

DeregisterUser(c) ==
    /\ InCS(c, "deregister_user")
    /\ LET r == deregister_user(reg, cur[c].id)
       IN  /\ reg' = r.reg
           /\ gone' = IF r.ret THEN [gone EXCEPT !.user = @ \cup {cur[c].id}] ELSE gone
           /\ Goes(c, GoSend(cur[c],
                             send_msg(DEREGISTER_USER_RESP, cur[c].txn_id,
                                      enc_simple_status(IF r.ret THEN OK
                                                        ELSE NOT_REGISTERED))))
    /\ Release(c)
    /\ UNCHANGED <<nrecv, nsent, returned>>

RegisterDisk(c) ==
    /\ Counted(c, "register_disk")
    /\ LET r == register_disk(reg, cur[c].id, cur[c].name, addr_of(c),
                              cur[c].listen_port, cur[c].cap, cur[c].zone)
       IN  /\ reg' = r.reg
           /\ returned' = [returned EXCEPT !.disk = Append(@, r.ret)]
           /\ Goes(c, GoSend(cur[c],
                             send_msg(REGISTER_DISK_RESP, cur[c].txn_id,
                                      enc_register_disk_resp(OK, r.ret))))
    /\ Release(c)
    /\ UNCHANGED <<nrecv, nsent, gone>>

DeregisterDisk(c) ==
    /\ InCS(c, "deregister_disk")
    /\ LET r == deregister_disk(reg, cur[c].id)
       IN  /\ reg' = r.reg
           /\ gone' = IF r.ret THEN [gone EXCEPT !.disk = @ \cup {cur[c].id}] ELSE gone
           /\ Goes(c, GoSend(cur[c],
                             send_msg(DEREGISTER_DISK_RESP, cur[c].txn_id,
                                      enc_simple_status(IF r.ret THEN OK
                                                        ELSE NOT_REGISTERED))))
    /\ Release(c)
    /\ UNCHANGED <<nrecv, nsent, returned>>

\* disks = reg.allocate_disks(n); if not disks: INSUFFICIENT_RESOURCES;
\* otherwise on to the DSS step
AllocateDisks(c) ==
    /\ InCS(c, "allocate_disks")
    /\ LET r == allocate_disks(reg, cur[c].n)
       IN  /\ reg' = r.reg
           /\ IF r.ret.none \/ r.ret.ids = << >>
              THEN Goes(c, GoSend(cur[c],
                          send_msg(CONFIGURE_DSS_RESP, cur[c].txn_id,
                                   enc_configure_resp(INSUFFICIENT_RESOURCES, 0, << >>).v)))
              ELSE Goes(c, GoLock([cur[c] EXCEPT !.disks = r.ret.ids], "mint_dss_id"))
    /\ Release(c)
    /\ UNCHANGED <<nrecv, nsent, returned, gone>>

\* reg.next_dss_id += 1, the with block is left, the response is encoded
MintDssId(c) ==
    /\ Counted(c, "mint_dss_id")
    /\ LET r == mint_dss_id(reg, cur[c].id)
           e == enc_configure_resp(OK, r.ret, cur[c].disks)
       IN  /\ reg' = r.reg
           /\ returned' = [returned EXCEPT !.dss = Append(@, r.ret)]
           /\ IF e.ok
              THEN Goes(c, GoSend(cur[c],
                                  send_msg(CONFIGURE_DSS_RESP, cur[c].txn_id, e.v)))
              ELSE Goes(c, Die(cur[c], "ValueError"))
    /\ Release(c)
    /\ UNCHANGED <<nrecv, nsent, gone>>

\* sock.sendall(hdr + payload), then the next loop iteration
Send(c) ==
    /\ pc[c] = "send"
    /\ nsent' = [nsent EXCEPT ![c] = @ + 1]
    /\ pc' = [pc EXCEPT ![c] = "recv"]
    /\ cur' = [cur EXCEPT ![c] = NoLocals]
    /\ UNCHANGED <<reg, lock, nrecv, exit, returned, gone>>

Next ==
    \E c \in Conns :
        \/ Accept(c)
        \/ RecvClosed(c)
        \/ RecvBadVersion(c)
        \/ RecvRegisterUser(c)
        \/ RecvDeregisterUser(c)
        \/ RecvRegisterDisk(c)
        \/ RecvDeregisterDisk(c)
        \/ RecvConfigure(c)
        \/ RecvUnknown(c)
        \/ Acquire(c)
        \/ ReadCounter(c)
        \/ RegisterUser(c)
        \/ DeregisterUser(c)
        \/ RegisterDisk(c)
        \/ DeregisterDisk(c)
        \/ AllocateDisks(c)
        \/ MintDssId(c)
        \/ Send(c)

Spec == Init /\ [][Next]_vars

(* --------------------------- connections without end ------------------- *)
\* serve accepts connections for as long as the process runs: after a
\* connection has ended, the next one accepted takes its place among the
\* threads, with a new peer that starts at its first frame
AcceptAgain(c) ==
    /\ pc[c] = "closed"
    /\ pc' = [pc EXCEPT ![c] = "recv"]
    /\ cur' = [cur EXCEPT ![c] = NoLocals]
    /\ nrecv' = [nrecv EXCEPT ![c] = 0]
    /\ nsent' = [nsent EXCEPT ![c] = 0]
    /\ exit' = [exit EXCEPT ![c] = ""]
    /\ UNCHANGED <<reg, lock, returned, gone>>

\* the peers ask for new ids only while few have been handed out
LiveRoom == Len(returned.user) + Len(returned.disk) + Len(returned.dss) < MaxLiveIds

\* recv_msg returns the next frame of a peer that sends MaxLiveReqs frames
LiveRecv(c) ==
    /\ nrecv[c] < MaxLiveReqs
    /\ \/ RecvDeregisterUser(c)
       \/ RecvDeregisterDisk(c)
       \/ RecvUnknown(c)
       \/ LiveRoom /\ RecvRegisterUser(c)
       \/ LiveRoom /\ RecvRegisterDisk(c)
       \/ LiveRoom /\ RecvConfigure(c)

\* the steps the thread of c takes by itself, once it has a request in hand
Handler(c) ==
    \/ Acquire(c)
    \/ ReadCounter(c)
    \/ RegisterUser(c)
    \/ DeregisterUser(c)
    \/ RegisterDisk(c)
    \/ DeregisterDisk(c)
    \/ AllocateDisks(c)
    \/ MintDssId(c)
    \/ Send(c)

NextLive ==
    \E c \in Conns :
        \/ Accept(c)
        \/ AcceptAgain(c)
        \/ RecvClosed(c)
        \/ RecvBadVersion(c)
        \/ LiveRecv(c)
        \/ Handler(c)

\* Every thread that can take a step of its own eventually takes one; nothing
\* is assumed of the peers (when they send, whether they close) nor of who
\* gets the lock when several threads wait for it.
SpecLive == Init /\ [][NextLive]_vars /\ \A c \in Conns : WF_vars(Handler(c))

(* --------------------------- the codec on its own ---------------------- *)
\* The messages of every schema over these field values.  Integers stay below
\* 2^31 - 1: the strings "", "a", "d1", "RAID0" and one of a two-byte character;
\* the ends of the u16 range; lists with none, one and several ids.
CodecStrs == {<< >>, <<97>>, <<100, 49>>, <<233>>, <<82, 65, 73, 68, 48>>}
CodecU16s == {0, 1, 256, 9000, 65535}
CodecU32s == {0, 1, 258, 16909060, 2147483646}
CodecU64s == {0, 1000000000, 2147483646}
CodecLists == {<< >>, <<1>>, <<1, 2>>, <<1, 3, 4>>, <<0, 2147483646>>}
CodecStatuses ==
    {OK, INVALID_ARGUMENT, ALREADY_REGISTERED, NOT_REGISTERED, INSUFFICIENT_RESOURCES,
     INTERNAL_ERROR}

CodecMessages ==
    {[schema |-> "register_user_req", name |-> nm, listen_port |-> p] :
        nm \in CodecStrs, p \in CodecU16s}
    \cup {[schema |-> "register_disk_req", name |-> nm, listen_port |-> p,
           capacity |-> cp, zone |-> z] :
        nm \in {<< >>, <<100, 49>>, <<233>>}, p \in {0, 9000}, cp \in CodecU64s,
        z \in {<< >>, <<122, 49>>}}
    \cup {[schema |-> "configure_req", n |-> n, policy |-> pol, constraints_json |-> cj] :
        n \in {0, 2, 65535}, pol \in {<< >>, <<82>>, <<233>>}, cj \in {<< >>, <<123, 125>>}}
    \cup {[schema |-> "deregister_user_req", id |-> i] : i \in CodecU32s}
    \cup {[schema |-> "deregister_disk_req", id |-> i] : i \in CodecU32s}
    \cup {[schema |-> "register_user_resp", status |-> st, id |-> i] :
        st \in {OK, INTERNAL_ERROR}, i \in CodecU32s}
    \cup {[schema |-> "register_disk_resp", status |-> st, id |-> i] :
        st \in {OK, INTERNAL_ERROR}, i \in CodecU32s}
    \cup {[schema |-> "configure_resp", status |-> st, dss_id |-> i, disk_ids |-> l] :
        st \in {OK, INSUFFICIENT_RESOURCES}, i \in {0, 1, 16909060}, l \in CodecLists}
    \cup {[schema |-> "simple_status", status |-> st] : st \in CodecStatuses}
    \cup {[schema |-> "error", status |-> st, msg |-> m] :
        st \in {INVALID_ARGUMENT}, m \in CodecStrs \cup {MsgTruncatedPayload}}

\* the encoder of the message's schema: [ok, v]
encode(x) ==
    LET done(b) == [ok |-> TRUE, v |-> b]
    IN  CASE x.schema = "register_user_req" ->
                done(enc_register_user_req(x.name, x.listen_port))
          [] x.schema = "register_disk_req" ->
                done(enc_register_disk_req(x.name, x.listen_port, x.capacity, x.zone))
          [] x.schema = "configure_req" ->
                done(enc_configure_req(x.n, x.policy, x.constraints_json))
          [] x.schema = "deregister_user_req" -> done(enc_deregister_user_req(x.id))
          [] x.schema = "deregister_disk_req" -> done(enc_deregister_disk_req(x.id))
          [] x.schema = "register_user_resp" -> done(enc_register_user_resp(x.status, x.id))
          [] x.schema = "register_disk_resp" -> done(enc_register_disk_resp(x.status, x.id))
          [] x.schema = "configure_resp" ->
                enc_configure_resp(x.status, x.dss_id, x.disk_ids)
          [] x.schema = "simple_status" -> done(enc_simple_status(x.status))
          [] x.schema = "error" -> enc_error(x.status, x.msg)

\* the decoder of the schema on the payload pb
decode(schema, pb) ==
    CASE schema = "register_user_req" -> dec_register_user_req(pb)
      [] schema = "register_disk_req" -> dec_register_disk_req(pb)
      [] schema = "configure_req" -> dec_configure_req(pb)
      [] schema = "deregister_user_req" -> dec_deregister_user_req(pb)
      [] schema = "deregister_disk_req" -> dec_deregister_disk_req(pb)
      [] schema = "register_user_resp" -> dec_register_user_resp(pb)
      [] schema = "register_disk_resp" -> dec_register_disk_resp(pb)
      [] schema = "configure_resp" -> dec_configure_resp(pb)
      [] schema = "simple_status" -> dec_status(pb)
      [] schema = "error" -> dec_error(pb)

\* pb without its i-th byte
RemoveAt(pb, i) == SubSeq(pb, 1, i - 1) \o SubSeq(pb, i + 1, Len(pb))

NoDecoded == [ok |-> FALSE, off |-> 0, err |-> ""]

\* One message through the codec; the run is kept in cur: the message x, the
\* payload pb, the position of the byte taken out of it (0: none), the decoder's
\* result dec.  The threads and the Registry stay as Init leaves them.
CodecInit ==
    /\ reg = Registry_init
    /\ lock = 0
    /\ pc = [c \in Conns |-> "idle"]
    /\ \E x \in CodecMessages :
         cur = [stage |-> "message", x |-> x, pb |-> << >>, cut |-> 0, dec |-> NoDecoded]
    /\ nrecv = [c \in Conns |-> 0]
    /\ nsent = [c \in Conns |-> 0]
    /\ exit = [c \in Conns |-> ""]
    /\ returned = [user |-> << >>, disk |-> << >>, dss |-> << >>]
    /\ gone = [user |-> {}, disk |-> {}]

CodecEncode ==
    /\ cur.stage = "message"
    /\ encode(cur.x).ok
    /\ cur' = [cur EXCEPT !.stage = "payload", !.pb = encode(cur.x).v]
    /\ UNCHANGED <<reg, lock, pc, nrecv, nsent, exit, returned, gone>>

\* the payload reaches the decoder one byte short, the i-th
CodecRemoveByte(i) ==
    /\ cur.stage = "payload"
    /\ cur.cut = 0
    /\ cur' = [cur EXCEPT !.pb = RemoveAt(@, i), !.cut = i]
    /\ UNCHANGED <<reg, lock, pc, nrecv, nsent, exit, returned, gone>>

CodecDecode ==
    /\ cur.stage = "payload"
    /\ cur' = [cur EXCEPT !.stage = "decoded", !.dec = decode(cur.x.schema, cur.pb)]
    /\ UNCHANGED <<reg, lock, pc, nrecv, nsent, exit, returned, gone>>

CodecNext ==
    \/ CodecEncode
    \/ \E i \in 1..Len(cur.pb) : CodecRemoveByte(i)
    \/ CodecDecode

SpecCodec == CodecInit /\ [][CodecNext]_vars

(* --------------------------- properties -------------------------------- *)
\* the frame the thread of c is about to send, as the peer's recv_msg reads it
Resp(c) == recv_msg(cur[c].resp)

Last(s) == s[Len(s)]

\* C1: for users and for disks, the k-th successful registration returns id k
\* (distinct, increasing, from 1), whatever else the connections do in between.
C1_KthRegistrationReturnsK ==
    /\ \A k \in 1..Len(returned.user) : returned.user[k] = k
    /\ \A k \in 1..Len(returned.disk) : returned.disk[k] = k

\* three disks and a user registered, with a disk deregistered along the way
C1_Witness ==
    /\ returned.disk = <<1, 2, 3>>
    /\ gone.disk # {}
    /\ Len(returned.user) >= 1

\* C2: next_user_id and next_disk_id never decrease, and a registration never
\* returns an id that a deregistration has removed before.
C2_CountersNeverReuse ==
    [][/\ reg'.next_user_id >= reg.next_user_id
       /\ reg'.next_disk_id >= reg.next_disk_id
       /\ Len(returned'.user) > Len(returned.user) => Last(returned'.user) \notin gone.user
       /\ Len(returned'.disk) > Len(returned.disk) => Last(returned'.disk) \notin gone.disk
      ]_vars

\* one connection alone registered user 1, deregistered it (the collection was
\* empty then), and has now registered again: the new user is 2
C2_Witness ==
    \E c \in Conns :
        /\ \A d \in Conns \ {c} : nrecv[d] = 0
        /\ nrecv[c] = 3
        /\ pc[c] = "send"
        /\ cur[c].op = "register_user"
        /\ gone.user = {1}
        /\ dict_keys(reg.users) = <<2>>

\* every connection has sent one valid REGISTER_DISK_REQ and nothing else, and
\* every handler thread has its response ready
AllRegisteredOneDisk ==
    \A c \in Conns : nrecv[c] = 1 /\ pc[c] = "send" /\ cur[c].op = "register_disk"

\* C3: N disks registered concurrently from N connections on an empty registry
\* get exactly the ids 1..N, under every interleaving of the handler threads.
C3_ConcurrentDiskIds ==
    AllRegisteredOneDisk =>
        /\ \A c \in Conns :
              /\ Resp(c).msg_type = REGISTER_DISK_RESP
              /\ dec_register_disk_resp(Resp(c).payload).status = OK
        /\ {dec_register_disk_resp(Resp(c).payload).id : c \in Conns} = 1..NConn

C3_Witness == AllRegisteredOneDisk

\* the thread of c takes a step (every step of a thread moves its pc)
StepOf(c) == pc'[c] # pc[c]

\* the thread of c runs the body of allocate_disks
AllocStep(c) == InCS(c, "allocate_disks") /\ StepOf(c)

DiskIds(r) == {r.disks[i].k : i \in 1..Len(r.disks)}
UserIds(r) == {r.users[i].k : i \in 1..Len(r.users)}

RECURSIVE Ascending(_, _)
\* the n smallest members of S, smallest first
Ascending(S, n) ==
    IF n = 0 THEN << >>
    ELSE LET m == CHOOSE x \in S : \A y \in S : x <= y
         IN  <<m>> \o Ascending(S \ {m}, n - 1)

\* C4: allocate_disks(n) with 1 <= n <= number of registered disks returns the n
\* smallest registered disk ids in ascending order, and the handler goes on to
\* the DSS step with them.
C4_AllocateSmallestAscending ==
    [][\A c \in Conns :
          (AllocStep(c) /\ cur[c].n >= 1 /\ cur[c].n <= Cardinality(DiskIds(reg)))
              => /\ cur'[c].disks = Ascending(DiskIds(reg), cur[c].n)
                 /\ Len(cur'[c].disks) = cur[c].n
                 /\ pc'[c] = "acquire"
                 /\ cur'[c].op = "mint_dss_id"
      ]_vars

\* disks 1, 2, 3 registered, 2 deregistered, 4 registered: n = 3 gave [1, 3, 4]
C4_Witness ==
    \E c \in Conns :
        /\ cur[c].op = "mint_dss_id"
        /\ cur[c].n = 3
        /\ cur[c].disks = <<1, 3, 4>>
        /\ gone.disk = {2}

\* the frame f is a CONFIGURE_DSS_RESP for txn with this status, DSS id and disks
IsConfigureResp(f, txn, status, dss_id, disk_ids) ==
    /\ f.exc = ""
    /\ f.msg_type = CONFIGURE_DSS_RESP
    /\ f.txn_id = txn
    /\ LET d == dec_configure_resp(f.payload)
       IN  /\ d.ok /\ d.off = Len(f.payload)
           /\ d.status = status /\ d.dss_id = dss_id /\ d.disk_ids = disk_ids

\* C5: a configure request whose n exceeds the number of disks registered when
\* allocate_disks runs is answered INSUFFICIENT_RESOURCES with dss_id 0 and no
\* disks, and mints nothing: next_dss_id moves only in the DSS step of a request
\* whose allocation succeeded, by one, so a failed request leaves the next DSS
\* id as it was.
C5_InsufficientMintsNothing ==
    [][/\ \A c \in Conns :
            (AllocStep(c) /\ cur[c].n > Cardinality(DiskIds(reg)))
                => /\ pc'[c] = "send"
                   /\ IsConfigureResp(recv_msg(cur'[c].resp), cur[c].txn_id,
                                      INSUFFICIENT_RESOURCES, 0, << >>)
                   /\ reg' = reg
       /\ reg'.next_dss_id # reg.next_dss_id
            => \E c \in Conns :
                  /\ Counted(c, "mint_dss_id")
                  /\ StepOf(c)
                  /\ cur[c].disks # << >>
                  /\ Len(cur[c].disks) = cur[c].n
                  /\ reg'.next_dss_id = reg.next_dss_id + 1
      ]_vars

\* two disks, a DSS of 2 configured, then n = 3 refused: the response is ready
C5_Witness ==
    \E c \in Conns :
        /\ pc[c] = "send"
        /\ cur[c].op = "allocate_disks"
        /\ cur[c].n = 3
        /\ Len(reg.disks) = 2
        /\ reg.next_dss_id = 2
        /\ IsConfigureResp(Resp(c), cur[c].txn_id, INSUFFICIENT_RESOURCES, 0, << >>)

\* C6: allocate_disks leaves the Registry as it was (collections, counters,
\* every disk READY), so the disks it returns stay eligible.
C6_AllocateChangesNothing ==
    [][\A c \in Conns :
          AllocStep(c)
              => /\ reg' = reg
                 /\ \A i \in 1..Len(reg'.disks) : reg'.disks[i].v.status = "READY"
                 /\ \A i \in 1..Len(cur'[c].disks) : cur'[c].disks[i] \in DiskIds(reg')
      ]_vars

\* two requests in flight hold the same disk, which is still registered
C6_Witness ==
    \E c, d \in Conns :
        /\ c # d
        /\ cur[c].op = "mint_dss_id"
        /\ cur[d].op = "mint_dss_id"
        /\ \E k \in DiskIds(reg) :
              /\ \E i \in 1..Len(cur[c].disks) : cur[c].disks[i] = k
              /\ \E i \in 1..Len(cur[d].disks) : cur[d].disks[i] = k

ResponseTypes ==
    {REGISTER_USER_RESP, REGISTER_DISK_RESP, CONFIGURE_DSS_RESP, DEREGISTER_USER_RESP,
     DEREGISTER_DISK_RESP, ERROR_RESP}

\* C7: the manager writes a frame only as the response to the request its thread
\* is handling: a response type, the protocol version, the transaction id of
\* that request (the connection's latest, the nrecv-th of the peer), and never
\* more responses than requests on any connection.
C7_OnlyResponsesEchoTxn ==
    \A c \in Conns :
        /\ nsent[c] <= nrecv[c]
        /\ pc[c] = "send" =>
              /\ nsent[c] = nrecv[c] - 1
              /\ Resp(c).exc = ""
              /\ Resp(c).msg_type \in ResponseTypes
              /\ Resp(c).msg_type \in {cur[c].msg_type + 1, ERROR_RESP}
              /\ Resp(c).txn_id = cur[c].txn_id
              /\ Resp(c).txn_id = nrecv[c]
        /\ pc[c] = "idle" => nsent[c] = 0

\* a third request on a connection is being answered, with transaction id 3
C7_Witness ==
    \E c \in Conns :
        /\ pc[c] = "send"
        /\ nrecv[c] = 3
        /\ nsent[c] = 2
        /\ Resp(c).txn_id = 3
        /\ Resp(c).msg_type = CONFIGURE_DSS_RESP

\* the frame f is a bare status response of type t for txn
IsStatusResp(f, t, txn, status) ==
    /\ f.exc = ""
    /\ f.msg_type = t
    /\ f.txn_id = txn
    /\ LET d == dec_status(f.payload)
       IN  d.ok /\ d.off = Len(f.payload) /\ d.status = status

Range(s) == {s[i] : i \in 1..Len(s)}

\* C8: a deregistration answers OK exactly when the id is in its own collection
\* at that moment, and then removes that record and nothing else; otherwise it
\* answers NOT_REGISTERED and the Registry stays as it was. The other
\* collection and the counters are never touched.
C8_DeregisterExactlyPresent ==
    [][\A c \in Conns :
          /\ (InCS(c, "deregister_user") /\ StepOf(c)) =>
                LET present == cur[c].id \in UserIds(reg)
                IN  /\ pc'[c] = "send"
                    /\ IsStatusResp(recv_msg(cur'[c].resp), DEREGISTER_USER_RESP,
                                    cur[c].txn_id,
                                    IF present THEN OK ELSE NOT_REGISTERED)
                    /\ Range(reg'.users) = {u \in Range(reg.users) : u.k # cur[c].id}
                    /\ Len(reg'.users) = Len(reg.users) - (IF present THEN 1 ELSE 0)
                    /\ ~present => reg' = reg
                    /\ reg' = [reg EXCEPT !.users = reg'.users]
          /\ (InCS(c, "deregister_disk") /\ StepOf(c)) =>
                LET present == cur[c].id \in DiskIds(reg)
                IN  /\ pc'[c] = "send"
                    /\ IsStatusResp(recv_msg(cur'[c].resp), DEREGISTER_DISK_RESP,
                                    cur[c].txn_id,
                                    IF present THEN OK ELSE NOT_REGISTERED)
                    /\ Range(reg'.disks) = {d \in Range(reg.disks) : d.k # cur[c].id}
                    /\ Len(reg'.disks) = Len(reg.disks) - (IF present THEN 1 ELSE 0)
                    /\ ~present => reg' = reg
                    /\ reg' = [reg EXCEPT !.disks = reg'.disks]
      ]_vars

\* disk 1 deregistered a second time, while user 1 is registered: NOT_REGISTERED
C8_Witness ==
    \E c \in Conns :
        /\ pc[c] = "send"
        /\ cur[c].op = "deregister_disk"
        /\ cur[c].id = 1
        /\ 1 \in gone.disk
        /\ 1 \in UserIds(reg)
        /\ IsStatusResp(Resp(c), DEREGISTER_DISK_RESP, cur[c].txn_id, NOT_REGISTERED)

\* the frame f is an ERROR_RESP for txn carrying INVALID_ARGUMENT and a message
IsInvalidArgument(f, txn) ==
    /\ f.exc = ""
    /\ f.msg_type = ERROR_RESP
    /\ f.txn_id = txn
    /\ dec_error(f.payload).ok
    /\ dec_error(f.payload).status = INVALID_ARGUMENT
    /\ dec_error(f.payload).msg # << >>

\* the REGISTER_* frames of the peers that are not valid: an empty name, port 0,
\* capacity 0, or a payload cut short
BadRegisterUserPayloads ==
    {enc_register_user_req(v[1], v[2]) :
        v \in {w \in NameInputs \X PortInputs : w[1] = << >> \/ w[2] = 0}}
    \cup {DropLast(enc_register_user_req(nm, p)) : nm \in NameInputs, p \in PortInputs}

BadRegisterDiskPayloads ==
    {enc_register_disk_req(v[1], v[2], v[3], v[4]) :
        v \in {w \in NameInputs \X PortInputs \X CapacityInputs \X ZoneInputs :
                  w[1] = << >> \/ w[2] = 0 \/ w[3] = 0}}
    \cup {DropLast(enc_register_disk_req(nm, p, cp, z)) :
             nm \in NameInputs, p \in PortInputs, cp \in CapacityInputs, z \in ZoneInputs}

\* each of them is among the peers' frames and is turned into an ERROR_RESP
BadRegistersRejected ==
    \A x \in 1..MaxReqs :
        /\ \A pb \in BadRegisterUserPayloads :
              /\ send_msg(REGISTER_USER_REQ, x, pb) \in PeerFrames[x][REGISTER_USER_REQ]
              /\ on_frame(recv_msg(send_msg(REGISTER_USER_REQ, x, pb))).pc = "send"
        /\ \A pb \in BadRegisterDiskPayloads :
              /\ send_msg(REGISTER_DISK_REQ, x, pb) \in PeerFrames[x][REGISTER_DISK_REQ]
              /\ on_frame(recv_msg(send_msg(REGISTER_DISK_REQ, x, pb))).pc = "send"

RegisterTypes == {REGISTER_USER_REQ, REGISTER_DISK_REQ}

\* the thread of c takes the next frame off its connection
RecvStep(c) == pc[c] = "recv" /\ nrecv'[c] = nrecv[c] + 1

\* C9: a REGISTER_USER_REQ / REGISTER_DISK_REQ that does not decode or validate
\* (empty name, port 0, capacity 0, truncated payload) is answered ERROR_RESP
\* with INVALID_ARGUMENT; only a request with a name, a port and (for a disk) a
\* capacity reaches the Registry; the rejected one changes nothing in it, and
\* after its response the thread is back at recv_msg on the open connection.
C9_BadRegisterRejected ==
    [][/\ BadRegistersRejected
       /\ \A c \in Conns :
             /\ (RecvStep(c) /\ cur'[c].msg_type \in RegisterTypes) =>
                   /\ reg' = reg
                   /\ exit'[c] = ""
                   /\ \/ /\ pc'[c] = "send"
                         /\ IsInvalidArgument(recv_msg(cur'[c].resp), cur'[c].txn_id)
                      \/ /\ pc'[c] = "acquire"
                         /\ cur'[c].name # << >>
                         /\ cur'[c].listen_port > 0
                         /\ cur'[c].msg_type = REGISTER_DISK_REQ => cur'[c].cap > 0
             /\ (pc[c] = "send" /\ cur[c].msg_type \in RegisterTypes /\ StepOf(c)) =>
                   /\ pc'[c] = "recv"
                   /\ exit'[c] = ""
                   /\ reg' = reg
      ]_vars

\* a second disk registration on a connection is refused for its arguments,
\* with the first disk still the only one and no id consumed
C9_Witness ==
    \E c \in Conns :
        /\ pc[c] = "send"
        /\ nrecv[c] = 2
        /\ cur[c].msg_type = REGISTER_DISK_REQ
        /\ cur[c].op = ""
        /\ dec_error(Resp(c).payload).msg = MsgBadDiskArgs
        /\ Len(reg.disks) = 1
        /\ reg.next_disk_id = 2

\* C10: a frame whose type is none of the five request types (a response type
\* among them) is answered ERROR_RESP with INVALID_ARGUMENT and the message
\* "unknown msg_type N", changes nothing in the Registry, and the thread then
\* goes back to recv_msg on the open connection.
C10_UnknownTypeRejected ==
    [][\A c \in Conns :
          /\ (RecvStep(c) /\ cur'[c].msg_type \notin RequestTypes) =>
                /\ reg' = reg
                /\ exit'[c] = ""
                /\ pc'[c] = "send"
                /\ IsInvalidArgument(recv_msg(cur'[c].resp), cur'[c].txn_id)
                /\ dec_error(recv_msg(cur'[c].resp).payload).msg
                       = MsgUnknownMsgType(cur'[c].msg_type)
          /\ (pc[c] = "send" /\ cur[c].msg_type \notin RequestTypes /\ StepOf(c)) =>
                /\ pc'[c] = "recv"
                /\ exit'[c] = ""
                /\ reg' = reg
      ]_vars

\* a frame of type 0x7F arrived after a registration on the same connection
C10_Witness ==
    \E c \in Conns :
        /\ pc[c] = "send"
        /\ cur[c].msg_type = ERROR_RESP
        /\ nrecv[c] = 2
        /\ Len(reg.users) = 1
        /\ IsInvalidArgument(Resp(c), 2)

\* a step in which recv_msg raised on connection c: the peer closed, or the
\* version byte was not PROTO_VERSION
TransportFailure(c) == pc[c] = "recv" /\ pc'[c] = "closed" /\ nrecv'[c] = nrecv[c]

\* the thread of d can take its next step: receive when its peer sends, enter
\* the lock when it is free, go on inside the lock, send
CanGoOn(d) ==
    /\ pc[d] = "recv" /\ nrecv[d] < MaxReqs =>
           ENABLED RecvRegisterUser(d) /\ ENABLED RecvDeregisterDisk(d)
    /\ pc[d] = "acquire" /\ lock = 0 => ENABLED Acquire(d)
    /\ pc[d] = "locked" =>
           ENABLED (ReadCounter(d) \/ DeregisterUser(d) \/ DeregisterDisk(d)
                    \/ AllocateDisks(d))
    /\ pc[d] = "counted" => ENABLED (RegisterUser(d) \/ RegisterDisk(d) \/ MintDssId(d))
    /\ pc[d] = "send" => ENABLED Send(d)

\* C11: when recv_msg fails on a connection (peer closed, unsupported version)
\* only that connection's thread ends: the step leaves the Registry, the lock
\* and every other thread as they were, a thread that has ended holds no lock,
\* and every other thread can still take its next step.
C11_TransportFailureIsLocal ==
    [][/\ \A c \in Conns :
            TransportFailure(c) =>
                /\ exit'[c] \in {"ConnectionError", "ValueError"}
                /\ UNCHANGED <<reg, lock, returned, gone, nsent>>
                /\ \A d \in Conns \ {c} :
                       /\ pc'[d] = pc[d] /\ cur'[d] = cur[d]
                       /\ nrecv'[d] = nrecv[d] /\ exit'[d] = exit[d]
       /\ \A c \in Conns :
            pc[c] = "closed" =>
                /\ lock # c
                /\ \A d \in Conns \ {c} : CanGoOn(d)]_vars

\* connection 1 registered a user and a disk and then failed in recv_msg; both
\* records are still there and connection 2 is about to send a response
C11_Witness ==
    /\ pc[1] = "closed" /\ exit[1] = "ConnectionError" /\ nrecv[1] = nsent[1]
    /\ \E i \in 1..Len(reg.users) : reg.users[i].v.addr = addr_of(1)
    /\ \E i \in 1..Len(reg.disks) : reg.disks[i].v.addr = addr_of(1)
    /\ pc[2] = "send" /\ Resp(2).msg_type = CONFIGURE_DSS_RESP
    /\ dec_configure_resp(Resp(2).payload).status = OK

\* recv_msg raises on each of the frames of another version, payload unread
BadVersionsRaise ==
    \A x \in 1..MaxReqs : \A w \in BadVersionFrames[x] :
        /\ unpack_be(w, 0, 1) # PROTO_VERSION
        /\ recv_msg(w).exc = "ValueError" /\ recv_msg(w).payload = << >>

\* C14: a frame whose version byte is not PROTO_VERSION makes recv_msg raise
\* before the payload is read: the step invokes no Registry operation, takes no
\* lock, sends nothing and interprets no payload, and the thread of that
\* connection has ended for good (it never receives or sends again).
C14_BadVersionRejected ==
    [][/\ BadVersionsRaise
       /\ \A c \in Conns :
            /\ RecvBadVersion(c) =>
                   /\ pc'[c] = "closed" /\ exit'[c] = "ValueError"
                   /\ cur'[c] = cur[c]
                   /\ UNCHANGED <<reg, lock, nrecv, nsent, returned, gone>>
            /\ pc[c] = "closed" =>
                   /\ pc'[c] = "closed" /\ exit'[c] = exit[c]
                   /\ nsent'[c] = nsent[c] /\ nrecv'[c] = nrecv[c]]_vars

\* connection 1 was answered once, registering a user, then received a frame of
\* another version: its thread has ended with every received request answered
\* and nothing in hand, and the user is still registered
C14_Witness ==
    /\ pc[1] = "closed" /\ exit[1] = "ValueError"
    /\ nrecv[1] = 1 /\ nsent[1] = 1 /\ cur[1] = NoLocals
    /\ Len(reg.users) = 1

\* the status byte every response payload starts with
RespStatus(c) == cur_u8(Cursor(Resp(c).payload))

UserNames(r) == {r.users[i].v.name : i \in 1..Len(r.users)}

DiskNames(r) == {r.disks[i].v.name : i \in 1..Len(r.disks)}

\* C12: no frame the manager sends carries ALREADY_REGISTERED or
\* INTERNAL_ERROR; a registration under a name that is already registered is
\* answered OK with an id no registered record has, and adds a record.
C12_ReservedStatusNeverSent ==
    [][\A c \in Conns :
        /\ pc[c] = "send" =>
               /\ RespStatus(c).ok
               /\ RespStatus(c).v \notin {ALREADY_REGISTERED, INTERNAL_ERROR}
        /\ Counted(c, "register_user") /\ StepOf(c) /\ cur[c].name \in UserNames(reg) =>
               /\ pc'[c] = "send"
               /\ LET f == recv_msg(cur'[c].resp)
                      d == dec_register_user_resp(f.payload)
                  IN  /\ f.msg_type = REGISTER_USER_RESP
                      /\ d.ok /\ d.status = OK /\ d.id \notin UserIds(reg)
                      /\ UserIds(reg') = UserIds(reg) \cup {d.id}
               /\ Len(reg'.users) = Len(reg.users) + 1
        /\ Counted(c, "register_disk") /\ StepOf(c) /\ cur[c].name \in DiskNames(reg) =>
               /\ pc'[c] = "send"
               /\ LET f == recv_msg(cur'[c].resp)
                      d == dec_register_disk_resp(f.payload)
                  IN  /\ f.msg_type = REGISTER_DISK_RESP
                      /\ d.ok /\ d.status = OK /\ d.id \notin DiskIds(reg)
                      /\ DiskIds(reg') = DiskIds(reg) \cup {d.id}
               /\ Len(reg'.disks) = Len(reg.disks) + 1]_vars

\* the name "a" registered twice as a user: both records are there under the
\* ids 1 and 2, and the second registration is about to be answered OK, id 2
C12_Witness ==
    /\ Len(reg.users) = 2
    /\ reg.users[1].v.name = reg.users[2].v.name
    /\ UserIds(reg) = {1, 2}
    /\ \E c \in Conns :
         /\ pc[c] = "send" /\ Resp(c).msg_type = REGISTER_USER_RESP
         /\ dec_register_user_resp(Resp(c).payload).status = OK
         /\ dec_register_user_resp(Resp(c).payload).id = 2

\* the thread of c is inside a with reg.lock block
InLock(c) == pc[c] \in {"locked", "counted"}

\* at most one thread is inside a lock-guarded section, and it is the holder
MutualExclusion ==
    /\ \A c, d \in Conns : InLock(c) /\ InLock(d) => c = d
    /\ \A c \in Conns : InLock(c) => lock = c
    /\ lock # 0 => lock \in Conns /\ InLock(lock)

\* The Registry operations run alone, start to end, on Registry r: [reg, ret]
seq_register_user(r, name, addr, port) ==
    register_user(r, read_next_user_id(r), name, addr, port)

seq_register_disk(r, name, addr, port, capacity_bytes, zone) ==
    register_disk(r, read_next_disk_id(r), name, addr, port, capacity_bytes, zone)

\* the step in which the thread of c leaves the critical section of op
Leaves(c, op) == InLock(c) /\ cur[c].op = op /\ ~InLock(c)'

\* the Registry is what the operations completed so far, run one after the
\* other in the order they left the lock, make of it
RegistryOfHistory ==
    /\ reg.next_user_id = Len(returned.user) + 1
    /\ reg.next_disk_id = Len(returned.disk) + 1
    /\ \A k \in 1..Len(returned.user) : returned.user[k] = k
    /\ \A k \in 1..Len(returned.disk) : returned.disk[k] = k
    /\ UserIds(reg) = Range(returned.user) \ gone.user
    /\ DiskIds(reg) = Range(returned.disk) \ gone.disk
    /\ Len(reg.users) = Cardinality(UserIds(reg))
    /\ Len(reg.disks) = Cardinality(DiskIds(reg))

\* C13: RegisterUser, DeregisterUser, RegisterDisk, DeregisterDisk and
\* AllocateDisks are linearizable.  At most one thread is inside a lock-guarded
\* section; the step in which a thread leaves the section is the point where
\* its operation takes effect: it takes the Registry to the state, and hands
\* back the result, of the whole operation run alone on the Registry of that
\* moment; this happens between the receipt of the request and its response,
\* so the order of these points respects each connection's request order.
C13_Linearizable ==
    [][/\ MutualExclusion
       /\ RegistryOfHistory
       /\ \A c \in Conns :
            /\ InLock(c) => nrecv[c] = nsent[c] + 1
            /\ Leaves(c, "register_user") =>
                   LET q == seq_register_user(reg, cur[c].name, addr_of(c),
                                              cur[c].listen_port)
                   IN  /\ reg' = q.reg
                       /\ cur'[c].resp = send_msg(REGISTER_USER_RESP, cur[c].txn_id,
                                                  enc_register_user_resp(OK, q.ret))
            /\ Leaves(c, "register_disk") =>
                   LET q == seq_register_disk(reg, cur[c].name, addr_of(c),
                                              cur[c].listen_port, cur[c].cap, cur[c].zone)
                   IN  /\ reg' = q.reg
                       /\ cur'[c].resp = send_msg(REGISTER_DISK_RESP, cur[c].txn_id,
                                                  enc_register_disk_resp(OK, q.ret))
            /\ Leaves(c, "deregister_user") =>
                   LET q == deregister_user(reg, cur[c].id)
                   IN  /\ reg' = q.reg
                       /\ dec_status(recv_msg(cur'[c].resp).payload).status =
                              (IF q.ret THEN OK ELSE NOT_REGISTERED)
            /\ Leaves(c, "deregister_disk") =>
                   LET q == deregister_disk(reg, cur[c].id)
                   IN  /\ reg' = q.reg
                       /\ dec_status(recv_msg(cur'[c].resp).payload).status =
                              (IF q.ret THEN OK ELSE NOT_REGISTERED)
            /\ Leaves(c, "allocate_disks") =>
                   LET q == allocate_disks(reg, cur[c].n)
                   IN  /\ reg' = q.reg
                       /\ IF q.ret.none
                          THEN dec_configure_resp(recv_msg(cur'[c].resp).payload).status =
                                   INSUFFICIENT_RESOURCES
                          ELSE pc'[c] = "acquire" /\ cur'[c].disks = q.ret.ids]_vars

\* two registrations of users overlap: the thread of connection 1 has read the
\* counter inside the lock while the thread of connection 2 waits for the lock,
\* after an earlier registration
C13_Witness ==
    /\ Counted(1, "register_user") /\ cur[1].id = 2
    /\ pc[2] = "acquire" /\ cur[2].op = "register_user"
    /\ Len(reg.users) = 1

\* the decoder's result d carries the fields of the message x
DecodedAs(x, d) ==
    CASE x.schema = "register_user_req" -> d.name = x.name /\ d.listen_port = x.listen_port
      [] x.schema = "register_disk_req" ->
            /\ d.name = x.name /\ d.listen_port = x.listen_port
            /\ d.capacity = x.capacity /\ d.zone = x.zone
      [] x.schema = "configure_req" ->
            d.n = x.n /\ d.policy = x.policy /\ d.constraints_json = x.constraints_json
      [] x.schema \in {"deregister_user_req", "deregister_disk_req"} -> d.id = x.id
      [] x.schema \in {"register_user_resp", "register_disk_resp"} ->
            d.status = x.status /\ d.id = x.id
      [] x.schema = "configure_resp" ->
            d.status = x.status /\ d.dss_id = x.dss_id /\ d.disk_ids = x.disk_ids
      [] x.schema = "simple_status" -> d.status = x.status
      [] x.schema = "error" -> d.status = x.status /\ d.msg = x.msg

\* C15: for every request and response schema, decoding the encoded payload
\* succeeds, gives back every field of the message (strings, lists, big-endian
\* integers; empty strings and empty lists included) and leaves the cursor at
\* the end of the payload.
C15_DecodeEncodeRoundTrip ==
    cur.stage = "decoded" /\ cur.cut = 0 =>
        /\ cur.dec.ok /\ cur.dec.err = ""
        /\ DecodedAs(cur.x, cur.dec)
        /\ cur.dec.off = Len(cur.pb)
        /\ cur.pb = encode(cur.x).v

\* a CONFIGURE_DSS_RESP with the list [1, 3, 4] went through the codec and came
\* back whole
C15_Witness ==
    /\ cur.stage = "decoded" /\ cur.cut = 0
    /\ cur.x.schema = "configure_resp" /\ cur.x.disk_ids = <<1, 3, 4>>
    /\ cur.x.dss_id = 16909060
    /\ cur.dec.ok /\ cur.dec.disk_ids = <<1, 3, 4>> /\ cur.dec.dss_id = 16909060
    /\ Len(cur.pb) = 19

\* C16 as claimed: a payload with any one byte removed, at whatever position,
\* fails to decode with the truncated-payload error.
C16_AnyByteRemovedFails ==
    cur.stage = "decoded" /\ cur.cut > 0 =>
        ~cur.dec.ok /\ cur.dec.err = "truncated payload"

\* C16: a payload whose last byte has been removed fails to decode with the
\* truncated-payload error (a byte removed elsewhere may leave a payload that
\* decodes, to other values); and whatever is decoded, the cursor's offset
\* never exceeds the length of the buffer.
C16_TruncationFails ==
    cur.stage = "decoded" =>
        /\ cur.dec.off <= Len(cur.pb)
        /\ cur.cut > 0 /\ cur.cut = Len(cur.pb) + 1 =>
               ~cur.dec.ok /\ cur.dec.err = "truncated payload"

\* a REGISTER_DISK_REQ payload of 18 bytes lost its last byte, and the decoder
\* raised in the read of the zone with the cursor inside the buffer
C16_Witness ==
    /\ cur.stage = "decoded" /\ cur.cut = 18 /\ Len(cur.pb) = 17
    /\ cur.x.schema = "register_disk_req" /\ cur.x.name = <<100, 49>>
    /\ ~cur.dec.ok /\ cur.dec.err = "truncated payload"
    /\ cur.dec.off > 0

\* the frame resp is a CONFIGURE_DSS_RESP with this status
ConfigureFrame(resp, status) ==
    /\ recv_msg(resp).msg_type = CONFIGURE_DSS_RESP
    /\ dec_configure_resp(recv_msg(resp).payload).ok
    /\ dec_configure_resp(recv_msg(resp).payload).status = status

\* the thread of c is about to send a CONFIGURE_DSS_RESP with this status
SendsConfigure(c, status) == pc[c] = "send" /\ ConfigureFrame(cur[c].resp, status)

ConfigureResp(c) == dec_configure_resp(Resp(c).payload)

\* C18: DSS ids come only from configure requests that succeed.  The k-th
\* increment of next_dss_id returns k; the counter moves only in the DSS step
\* of a request whose allocation succeeded, and that request is answered OK
\* with the id minted; a request answered INVALID_ARGUMENT or
\* INSUFFICIENT_RESOURCES carries dss_id 0 and moved nothing; no OK response
\* carries dss_id 0 and no two OK responses carry the same dss_id, under every
\* interleaving of the connections.
C18_DssIdsOnlyOnSuccess ==
    [][/\ \A k \in 1..Len(returned.dss) : returned.dss[k] = k
       /\ reg.next_dss_id = Len(returned.dss) + 1
       /\ \A c \in Conns :
            /\ SendsConfigure(c, OK) =>
                   /\ ConfigureResp(c).dss_id >= 1
                   /\ ConfigureResp(c).dss_id \in Range(returned.dss)
                   /\ \A d \in Conns \ {c} :
                          SendsConfigure(d, OK) =>
                              ConfigureResp(d).dss_id # ConfigureResp(c).dss_id
            /\ pc[c] = "send" /\ Resp(c).msg_type = CONFIGURE_DSS_RESP
                 /\ ~SendsConfigure(c, OK) =>
                   /\ \/ SendsConfigure(c, INVALID_ARGUMENT)
                      \/ SendsConfigure(c, INSUFFICIENT_RESOURCES)
                   /\ ConfigureResp(c).dss_id = 0 /\ ConfigureResp(c).disk_ids = << >>
            /\ StepOf(c) /\ ~Counted(c, "mint_dss_id") =>
                   reg'.next_dss_id = reg.next_dss_id
            /\ StepOf(c) /\ Counted(c, "mint_dss_id") =>
                   /\ reg'.next_dss_id = reg.next_dss_id + 1
                   /\ returned'.dss = Append(returned.dss, reg.next_dss_id)
                   /\ pc'[c] = "send"
                   /\ ConfigureFrame(cur'[c].resp, OK)
                   /\ dec_configure_resp(recv_msg(cur'[c].resp).payload).dss_id =
                          reg.next_dss_id]_vars

\* two configure requests from different connections succeeded side by side:
\* both threads are about to send OK, one with dss_id 1 and one with dss_id 2
C18_Witness ==
    /\ SendsConfigure(1, OK) /\ SendsConfigure(2, OK)
    /\ {ConfigureResp(1).dss_id, ConfigureResp(2).dss_id} = {1, 2}
    /\ returned.dss = <<1, 2>>

\* C19 as claimed: the disks a successful configure request lists are still
\* registered when its DSS id is minted and when its response is sent.
C19_ListedDisksStillRegistered ==
    \A c \in Conns :
        /\ Counted(c, "mint_dss_id") => Range(cur[c].disks) \subseteq DiskIds(reg)
        /\ SendsConfigure(c, OK) => Range(ConfigureResp(c).disk_ids) \subseteq DiskIds(reg)

\* C19: every disk id listed in an OK CONFIGURE_DSS_RESP was the id of a
\* registered disk at the moment allocate_disks ran for that request (the list
\* is carried unchanged from there to the response); a DEREGISTER_DISK from
\* another connection may remove such a disk before the DSS id is minted or
\* the response is sent.
C19_ListedDisksWereRegistered ==
    [][\A c \in Conns :
        /\ Leaves(c, "allocate_disks") /\ pc'[c] = "acquire" =>
               /\ cur'[c].op = "mint_dss_id"
               /\ cur'[c].disks # << >>
               /\ Range(cur'[c].disks) \subseteq DiskIds(reg)
        /\ cur[c].op = "mint_dss_id" /\ pc[c] # "send" =>
               /\ cur'[c].disks = cur[c].disks
               /\ pc'[c] = "send" =>
                      /\ ConfigureFrame(cur'[c].resp, OK)
                      /\ dec_configure_resp(recv_msg(cur'[c].resp).payload).disk_ids =
                             cur[c].disks
        /\ SendsConfigure(c, OK) =>
               /\ cur[c].op = "mint_dss_id"
               /\ Range(ConfigureResp(c).disk_ids) \subseteq Range(returned.disk)]_vars

\* an OK response listing disk 1 is about to be sent, and disk 1 was
\* deregistered after allocate_disks chose it
C19_Witness ==
    \E c \in Conns :
        /\ SendsConfigure(c, OK) /\ ConfigureResp(c).disk_ids = <<1>>
        /\ 1 \in gone.disk /\ 1 \notin DiskIds(reg)

\* the types whose payload the loop body decodes outside any try block
UnguardedTypes == {DEREGISTER_USER_REQ, DEREGISTER_DISK_REQ, CONFIGURE_DSS_REQ}

\* the frame m is of such a type and its decoder raises: the payload is too
\* short for the type's schema, or a string in it is not UTF-8
Undecodable(m) ==
    \/ m.msg_type = DEREGISTER_USER_REQ /\ ~dec_deregister_user_req(m.payload).ok
    \/ m.msg_type = DEREGISTER_DISK_REQ /\ ~dec_deregister_disk_req(m.payload).ok
    \/ m.msg_type = CONFIGURE_DSS_REQ /\ ~dec_configure_req(m.payload).ok

\* of the peers' frames, exactly those end the thread; all others go on to a
\* response, at once or through the lock
OnlyUndecodableDies ==
    \A x \in 1..MaxReqs : \A t \in PeerTypes : \A w \in PeerFrames[x][t] :
        LET m == recv_msg(w)
        IN  /\ m.exc = ""
            /\ IF Undecodable(m)
               THEN on_frame(m).pc = "closed" /\ on_frame(m).exc = "ValueError"
               ELSE on_frame(m).pc \in {"send", "acquire"}

\* the thread of c has a request in hand that it has not answered yet
Busy(c) == pc[c] \in {"acquire", "locked", "counted", "send"}

\* C20 as claimed: every request received with the supported version is
\* answered: a thread whose peer did not close has answered all it received
\* when it stands at recv_msg or has ended.
C20_EveryRequestAnswered ==
    \A c \in Conns :
        /\ pc[c] = "recv" => nsent[c] = nrecv[c]
        /\ pc[c] = "closed" /\ exit[c] # "ConnectionError" => nsent[c] = nrecv[c]

\* C20: every request frame received with the supported version is answered by
\* exactly one response frame before the thread reads the next one, whatever
\* its type and payload, except a DEREGISTER_USER_REQ, DEREGISTER_DISK_REQ or
\* CONFIGURE_DSS_REQ whose payload does not decode (too short for its schema,
\* or a string that is not UTF-8): the cursor's ValueError leaves the loop
\* there, no response is sent and the thread ends.
C20_AnsweredUnlessUndecodable ==
    [][/\ OnlyUndecodableDies
       /\ \A c \in Conns :
            /\ nsent[c] <= nrecv[c] /\ nrecv[c] <= nsent[c] + 1
            /\ pc[c] = "recv" => nsent[c] = nrecv[c]
            /\ Busy(c) => nrecv[c] = nsent[c] + 1
            /\ pc[c] = "send" =>
                   /\ ENABLED Send(c)
                   /\ Resp(c).exc = "" /\ Resp(c).txn_id = cur[c].txn_id
            /\ pc[c] = "send" /\ StepOf(c) =>
                   pc'[c] = "recv" /\ nsent'[c] = nsent[c] + 1
            /\ Busy(c) /\ pc[c] # "send" /\ StepOf(c) => Busy(c)' /\ nsent'[c] = nsent[c]
            /\ pc[c] = "closed" /\ nrecv[c] > nsent[c] =>
                   /\ exit[c] = "ValueError"
                   /\ cur[c].msg_type \in UnguardedTypes /\ cur[c].op = ""]_vars

\* connection 1 was answered once and then sent a DEREGISTER_DISK_REQ that is
\* too short: its thread has ended on the ValueError with that request unanswered
C20_Witness ==
    /\ pc[1] = "closed" /\ exit[1] = "ValueError"
    /\ nrecv[1] = 2 /\ nsent[1] = 1
    /\ cur[1].msg_type = DEREGISTER_DISK_REQ

\* no thread is stuck: every thread with a request in hand can take its next
\* step, or waits for a lock whose holder can take its next step
NoDeadlock ==
    /\ MutualExclusion
    /\ \A c \in Conns :
         /\ CanGoOn(c)
         /\ pc[c] = "acquire" /\ lock # 0 => InLock(lock) /\ CanGoOn(lock)

\* whoever holds the lock gives it back
LockReleased == \A c \in Conns : (lock = c) ~> (lock = 0)

\* a thread that waits for the lock gets it
EntersLock == \A c \in Conns : (pc[c] = "acquire") ~> (pc[c] = "locked")

\* a request in hand is answered: the thread is back at recv_msg, all sent
Answered == \A c \in Conns : Busy(c) ~> (pc[c] = "recv" /\ nsent[c] = nrecv[c])

\* the lock goes to each thread that finds it free again and again
FairLock == \A c \in Conns : SF_vars(Acquire(c))

\* C17 as claimed: under weak fairness of the handler threads every handler
\* that tries to enter a critical section eventually enters it.
C17_WaitingHandlerEnters == EntersLock

\* C17: no reachable state is a deadlock and the lock is always released, under
\* weak fairness of the handler threads; a handler that tries to enter a
\* critical section eventually enters it, and the request it has in hand is
\* eventually answered, when in addition the lock is fair to the waiting
\* threads (strong fairness of the acquire step), whatever the other
\* connections do.
C17_NoDeadlockFairLockEnters ==
    /\ []NoDeadlock
    /\ LockReleased
    /\ \A c \in Conns : (pc[c] = "send") ~> (pc[c] = "recv" /\ nsent[c] = nrecv[c])
    /\ FairLock => EntersLock /\ Answered

\* the thread of connection 1 waits for the lock, which the thread of
\* connection 2 holds, after connection 2 was accepted a second time
C17_Witness ==
    /\ pc[1] = "acquire" /\ lock = 2 /\ InLock(2)
    /\ Len(reg.disks) = 1

====
